---- MODULE Spec2Model ----
(***************************************************************************)
(* Model of package buffered (src/unnamed/part_000): the per-image pending *)
(* state (hasFill / fillColor / pixels / needsToResolvePixels), its lazy   *)
(* resolution into the mipmap resource, and the delayed-command queue that *)
(* captures mutating calls issued before the first BeginFrame.             *)
(*                                                                         *)
(* Every method of the package is an operator from a "world" record to a   *)
(* world record; an action applies one public method to the current state. *)
(* Pixel buffers are byte sequences, indexed as the Go code indexes them.  *)
(***************************************************************************)
EXTENDS Integers, Sequences, FiniteSets, TLC

\* Bound on the number of calls issued before the first BeginFrame, the
\* creation of the images apart.
MaxQueue == 1
\* Bound on the number of calls issued after the first BeginFrame.
MaxOps == 2

Images == {1, 2}

\* Arguments of NewImage(width, height, volatile) for the two images.
NewWidth(i) == IF i = 1 THEN 2 ELSE 1
NewHeight(i) == IF i = 1 THEN 2 ELSE 1

\* color.RGBA values used by the callers.
ClrA == <<1, 2, 3, 4>>
ClrB == <<5, 6, 7, 8>>
ClrC == <<9, 10, 11, 12>>
ClrD == <<13, 14, 15, 16>>
ClrZero == <<0, 0, 0, 0>>
FillColors == {ClrA, ClrB}

Min(a, b) == IF a < b THEN a ELSE b

-----------------------------------------------------------------------------
(* Go slices. A slice is nil, owns its bytes, or is buf[:n] of a buffer of  *)
(* the caller and shares its backing array.                                *)

NilSlice == [k |-> "nil", n |-> 0, b |-> <<>>]
Own(b) == [k |-> "own", n |-> Len(b), b |-> b]
UserRef(n) == [k |-> "user", n |-> n, b |-> <<>>]

\* The bytes a slice holds when the caller's buffer holds u.
Bytes(s, u) == IF s.k = "user" THEN SubSeq(u, 1, s.n) ELSE s.b

\* make([]byte, 4*n) filled with one colour: the loops of Pixels, lines 139-144.
FillBytes(n, c) == [k \in 1..(4 * n) |-> c[((k - 1) % 4) + 1]]

\* make([]byte, n): zeroed.
ZeroBytes(n) == [k \in 1..n |-> 0]

\* copy(dst[off:], src): writes min(len(dst)-off, len(src)) bytes.
GoCopy(dst, off, src) ==
    [k \in 1..Len(dst) |->
        IF k > off /\ k - off <= Len(src) THEN src[k - off] ELSE dst[k]]

\* Whether s[off:] is a valid slice expression of a slice of length n.
SliceFromOK(n, off) == off >= 0 /\ off <= n

\* s[a:b] as a value (a, b are Go's 0-based bounds, 0 <= a <= b <= len).
SubBytes(s, a, b) == [k \in 1..(b - a) |-> s[a + k]]

-----------------------------------------------------------------------------
(* image.Rect / Rectangle.Empty / Rectangle.In, as used at line 130.       *)

GoRect(x0, y0, x1, y1) ==
    [minx |-> Min(x0, x1), miny |-> Min(y0, y1),
     maxx |-> IF x0 > x1 THEN x0 ELSE x1, maxy |-> IF y0 > y1 THEN y0 ELSE y1]

RectEmpty(r) == r.minx >= r.maxx \/ r.miny >= r.maxy

RectIn(r, s) ==
    \/ RectEmpty(r)
    \/ /\ s.minx <= r.minx /\ r.maxx <= s.maxx
       /\ s.miny <= r.miny /\ r.maxy <= s.maxy

-----------------------------------------------------------------------------
(* The world record: everything a method can read or change.               *)
(*   im     the Image structs            res    the mipmap resources       *)
(*   delay  needsToDelayCommands         q      delayedCommands            *)
(*   user   the caller's pixel buffer    vtx    the caller's vertex buffer *)
(*   idx    the caller's index buffer    sh     Shader.shader is non-nil   *)
(*   fail   the resource's readback fails during this call                 *)
(*   calls  the calls made on the resources during this call               *)
(*   ret    "ok" | "range" | "err" | "panic"      why  the panic's reason  *)
(*   out    the []byte a call returns                                      *)

\* The zero value of the Image struct, lines 28-38 and 52.
ZeroImage ==
    [img |-> FALSE, width |-> 0, height |-> 0,
     hasFill |-> FALSE, fillColor |-> ClrZero,
     pixels |-> NilSlice, needsToResolvePixels |-> FALSE]

NoResource == [alloc |-> FALSE, disposed |-> FALSE, pix |-> <<>>]

Panic(W, why) == [W EXCEPT !.ret = "panic", !.why = why]

\* One call on a resource, as the resource sees it.
Call(f, i, a, b, s) == [f |-> f, i |-> i, a |-> a, b |-> b, s |-> s]

Log(W, c) == [W EXCEPT !.calls = Append(@, c)]

-----------------------------------------------------------------------------
(* The mipmap resource (package mipmap, an external collaborator): a       *)
(* size-fixed image holding the authoritative pixels once resolved.        *)

\* A method call through a nil *mipmap.Mipmap dereferences nil.
NilHandle(W, i) == ~W.im[i].img

\* mipmap.New(width, height, volatile): a transparent image.
MipmapNew(W, i, w, h) ==
    Log([W EXCEPT !.res[i] = [alloc |-> TRUE, disposed |-> FALSE,
                              pix |-> ZeroBytes(4 * w * h)]],
        Call("New", i, <<w, h>>, <<>>, 0))

\* (*Mipmap).Fill(clr)
MipmapFill(W, i, c) ==
    IF NilHandle(W, i) THEN Panic(W, "nil pointer dereference")
    ELSE Log([W EXCEPT !.res[i].pix = FillBytes(Len(@) \div 4, c)],
             Call("Fill", i, c, <<>>, 0))

\* (*Mipmap).ReplacePixels(pix): full-size only.
MipmapReplacePixels(W, i, b) ==
    IF NilHandle(W, i) THEN Panic(W, "nil pointer dereference")
    ELSE Log([W EXCEPT !.res[i].pix = b], Call("ReplacePixels", i, b, <<>>, 0))

\* (*Mipmap).Pixels(x, y, width, height): the readback; it may fail. The
\* package only ever asks for the entire image (lines 149 and 245).
MipmapPixels(W, i, x, y, w, h) ==
    IF NilHandle(W, i) THEN Panic(W, "nil pointer dereference")
    ELSE LET W1 == Log(W, Call("Pixels", i, <<x, y, w, h>>, <<>>, 0))
         IN  IF W.fail THEN [W1 EXCEPT !.ret = "err", !.out = <<>>]
             ELSE [W1 EXCEPT !.out = W.res[i].pix]

\* What a draw leaves in the destination: the source's pixels, repeated over
\* the destination; transparent when there is no source.
DrawResult(dst, src) ==
    IF Len(src) = 0 THEN ZeroBytes(Len(dst))
    ELSE [k \in 1..Len(dst) |-> src[((k - 1) % Len(src)) + 1]]

\* (*Mipmap).DrawImage(src, bounds, geom, colorm, mode, filter)
MipmapDrawImage(W, i, src) ==
    IF NilHandle(W, i) THEN Panic(W, "nil pointer dereference")
    ELSE Log([W EXCEPT !.res[i].pix = DrawResult(@, W.res[src].pix)],
             Call("DrawImage", i, <<src>>, <<>>, 0))

\* (*Mipmap).DrawTriangles(src, vertices, indices, ..., shader, uniforms);
\* src = 0 is a nil source, s = 1 a non-nil shader.
MipmapDrawTriangles(W, i, src, vertices, indices, s, us) ==
    IF NilHandle(W, i) THEN Panic(W, "nil pointer dereference")
    ELSE Log([W EXCEPT !.res[i].pix =
                 DrawResult(@, IF src = 0 THEN <<>> ELSE W.res[src].pix)],
             Call("DrawTriangles", i, <<src>> \o us, vertices \o indices, s))

\* (*Mipmap).MarkDisposed()
MipmapMarkDisposed(W, i) ==
    IF NilHandle(W, i) THEN Panic(W, "nil pointer dereference")
    ELSE Log([W EXCEPT !.res[i].disposed = TRUE],
             Call("MarkDisposed", i, <<>>, <<>>, 0))

-----------------------------------------------------------------------------
(* The delayed-command queue (tryAddDelayedCommand, flushDelayedCommands,  *)
(* checkDelayedCommandsFlushed). A captured closure is a command value:    *)
(* the method to call on replay and the values the closure captured.       *)

Cmd(op, i, src, r, c, obj, vtx, idx, shader, us) ==
    [op |-> op, i |-> i, src |-> src, r |-> r, c |-> c, obj |-> obj,
     vtx |-> vtx, idx |-> idx, shader |-> shader, us |-> us]

\* tryAddDelayedCommand(f, ondelayed) when it returns true: the command is
\* appended; the caller returns without executing.
AddDelayedCommand(W, cmd) == [W EXCEPT !.q = Append(@, cmd)]

\* checkDelayedCommandsFlushed(fname): panics before the first flush.
NotFlushed(W) == W.delay

-----------------------------------------------------------------------------
(* Package buffered: the Image methods.                                    *)

\* (*Image).initialize(width, height, volatile)
initialize(W, i, w, h) ==
    IF W.delay
    THEN AddDelayedCommand(W, Cmd("initialize", i, 0, <<w, h>>, ClrZero,
                                  NilSlice, NilSlice, NilSlice, 0, <<>>))
    ELSE LET W1 == MipmapNew(W, i, w, h)
         IN  [W1 EXCEPT !.im[i].img = TRUE,
                        !.im[i].width = w,
                        !.im[i].height = h]

\* invalidatePendingPixels without line 91: the fill flag is left as it is.
invalidateKeepsFill(W, i) ==
    [W EXCEPT !.im[i].pixels = NilSlice,
              !.im[i].needsToResolvePixels = FALSE]

\* (*Image).invalidatePendingPixels()
invalidatePendingPixels(W, i) ==
    [W EXCEPT !.im[i].pixels = NilSlice,
              !.im[i].needsToResolvePixels = FALSE,
              !.im[i].hasFill = FALSE]

\* (*Image).resolvePendingFill()
resolvePendingFill(W, i) ==
    IF ~W.im[i].hasFill THEN W
    ELSE LET W1 == MipmapFill(W, i, W.im[i].fillColor)
         IN  IF W1.ret # "ok" THEN W1
             ELSE [W1 EXCEPT !.im[i].hasFill = FALSE]

\* (*Image).resolvePendingPixels(keepPendingPixels)
resolvePendingPixels(W, i, keepPendingPixels) ==
    IF W.im[i].needsToResolvePixels /\ W.im[i].hasFill
    THEN Panic(W, "needsToResolvePixels and hasFill")
    ELSE IF W.im[i].needsToResolvePixels
    THEN LET W1 == MipmapReplacePixels(W, i, Bytes(W.im[i].pixels, W.user))
         IN  IF W1.ret # "ok" THEN W1
             ELSE resolvePendingFill(
                    [W1 EXCEPT !.im[i].pixels =
                                  IF keepPendingPixels THEN @ ELSE NilSlice,
                               !.im[i].needsToResolvePixels = FALSE], i)
    ELSE resolvePendingFill(W, i)

\* (*Image).MarkDisposed()
MarkDisposed(W, i) ==
    IF W.delay
    THEN AddDelayedCommand(W, Cmd("MarkDisposed", i, 0, <<>>, ClrZero,
                                  NilSlice, NilSlice, NilSlice, 0, <<>>))
    ELSE MipmapMarkDisposed(invalidatePendingPixels(W, i), i)

\* The row loop of Pixels, lines 156-158: row j of the result is copied from
\* img.pixels[4*((j+y)*img.width+x):]; a slice bound out of range panics.
PixelsRowsOK(n, iw, x, y, height) ==
    \A j \in 0..(height - 1) : SliceFromOK(n, 4 * ((j + y) * iw + x))

\* The row loop reading row y for every row of the result.
PixelsRowsSameRow(p, iw, x, y, width, height) ==
    IF height <= 0 \/ width <= 0 THEN ZeroBytes(4 * width * height)
    ELSE
    [k \in 1..(4 * width * height) |->
        LET c == (k - 1) % (4 * width)
            s == 4 * (y * iw + x) + c + 1
        IN  IF s <= Len(p) THEN p[s] ELSE 0]

PixelsRows(p, iw, x, y, width, height) ==
    IF height <= 0 \/ width <= 0 THEN ZeroBytes(4 * width * height)
    ELSE
    [k \in 1..(4 * width * height) |->
        LET j == (k - 1) \div (4 * width)
            c == (k - 1) % (4 * width)
            s == 4 * ((j + y) * iw + x) + c + 1
        IN  IF s <= Len(p) THEN p[s] ELSE 0]

\* Pixels without the check of line 128.
PixelsUnchecked(W, i, x, y, width, height) ==
    IF ~RectIn(GoRect(x, y, x + width, y + height),
               GoRect(0, 0, W.im[i].width, W.im[i].height))
    THEN [W EXCEPT !.ret = "range", !.out = <<>>]
    ELSE IF 4 * width * height < 0
    THEN Panic(W, "makeslice: len out of range")
    ELSE IF W.im[i].hasFill
    THEN [W EXCEPT !.out = FillBytes(width * height, W.im[i].fillColor)]
    ELSE LET W1 == IF W.im[i].pixels.k = "nil"
                   THEN LET R == MipmapPixels(W, i, 0, 0, W.im[i].width,
                                              W.im[i].height)
                        IN  IF R.ret # "ok" THEN R
                            ELSE [R EXCEPT !.im[i].pixels = Own(R.out),
                                           !.out = <<>>]
                   ELSE W
             p == Bytes(W1.im[i].pixels, W1.user)
         IN  IF W1.ret # "ok" THEN W1
             ELSE IF ~PixelsRowsOK(Len(p), W1.im[i].width, x, y, height)
             THEN Panic(W1, "slice bounds out of range")
             ELSE [W1 EXCEPT !.out =
                      PixelsRows(p, W1.im[i].width, x, y, width, height)]

\* Pixels resolving a pending fill into the resource and reading it back.
PixelsResolvesFill(W, i, x, y, width, height) ==
    IF NotFlushed(W) THEN Panic(W, "delayed commands are not flushed")
    ELSE PixelsUnchecked(resolvePendingFill(W, i), i, x, y, width, height)

\* Pixels without the assignment of line 153: the bytes read back are used
\* for this call and not kept.
PixelsNoCache(W, i, x, y, width, height) ==
    IF NotFlushed(W) THEN Panic(W, "delayed commands are not flushed")
    ELSE LET R == PixelsUnchecked(W, i, x, y, width, height)
         IN  IF W.im[i].pixels.k = "nil"
             THEN [R EXCEPT !.im[i].pixels = NilSlice]
             ELSE R

\* (*Image).Pixels(x, y, width, height)
Pixels(W, i, x, y, width, height) ==
    IF NotFlushed(W) THEN Panic(W, "delayed commands are not flushed")
    ELSE IF ~RectIn(GoRect(x, y, x + width, y + height),
                    GoRect(0, 0, W.im[i].width, W.im[i].height))
    THEN [W EXCEPT !.ret = "range", !.out = <<>>]
    ELSE IF 4 * width * height < 0
    THEN Panic(W, "makeslice: len out of range")
    ELSE IF W.im[i].hasFill
    THEN [W EXCEPT !.out = FillBytes(width * height, W.im[i].fillColor)]
    ELSE LET W1 == IF W.im[i].pixels.k = "nil"
                   THEN LET R == MipmapPixels(W, i, 0, 0, W.im[i].width,
                                              W.im[i].height)
                        IN  IF R.ret # "ok" THEN R
                            ELSE [R EXCEPT !.im[i].pixels = Own(R.out),
                                           !.out = <<>>]
                   ELSE W
             p == Bytes(W1.im[i].pixels, W1.user)
         IN  IF W1.ret # "ok" THEN W1
             ELSE IF ~PixelsRowsOK(Len(p), W1.im[i].width, x, y, height)
             THEN Panic(W1, "slice bounds out of range")
             ELSE [W1 EXCEPT !.out =
                      PixelsRows(p, W1.im[i].width, x, y, width, height)]

\* Fill without the invalidation of line 206.
FillKeepsPixels(W, i, clr) ==
    IF W.delay
    THEN AddDelayedCommand(W, Cmd("Fill", i, 0, <<>>, clr,
                                  NilSlice, NilSlice, NilSlice, 0, <<>>))
    ELSE [W EXCEPT !.im[i].fillColor = clr, !.im[i].hasFill = TRUE]

\* Fill pushing the colour to the resource at once instead of deferring it.
FillEager(W, i, clr) ==
    IF W.delay
    THEN AddDelayedCommand(W, Cmd("Fill", i, 0, <<>>, clr,
                                  NilSlice, NilSlice, NilSlice, 0, <<>>))
    ELSE resolvePendingFill(
           [invalidatePendingPixels(W, i) EXCEPT !.im[i].fillColor = clr,
                                                  !.im[i].hasFill = TRUE], i)

\* (*Image).Fill(clr)
Fill(W, i, clr) ==
    IF W.delay
    THEN AddDelayedCommand(W, Cmd("Fill", i, 0, <<>>, clr,
                                  NilSlice, NilSlice, NilSlice, 0, <<>>))
    ELSE [invalidatePendingPixels(W, i) EXCEPT !.im[i].fillColor = clr,
                                                !.im[i].hasFill = TRUE]

\* ondelayed keeping the caller's slice instead of copying it.
ondelayedNoCopy(W, pix) == pix

\* ondelayed of ReplacePixels, lines 219-223: the snapshot taken at capture.
ondelayed(W, pix) == Own(Bytes(pix, W.user))

\* copied := make([]byte, len(pix)); copy(copied, pix), lines 234-235.
copied(W, pix) == Own(Bytes(pix, W.user))

\* The loop with the region's width as the destination's stride.
RECURSIVE ReplaceRowsRegionStride(_, _, _, _, _, _, _, _)
ReplaceRowsRegionStride(p, pix, iw, x, y, width, height, j) ==
    IF j >= height THEN [ok |-> TRUE, p |-> p]
    ELSE LET off == 4 * ((j + y) * width + x)
         IN  IF ~SliceFromOK(Len(p), off) THEN [ok |-> FALSE, p |-> p]
             ELSE ReplaceRowsRegionStride(
                    GoCopy(p, off, SubBytes(pix, 4 * j * width, 4 * (j + 1) * width)),
                    pix, iw, x, y, width, height, j + 1)

\* The loop writing every row of the region to the region's first row.
RECURSIVE ReplaceRowsFirstRow(_, _, _, _, _, _, _, _)
ReplaceRowsFirstRow(p, pix, iw, x, y, width, height, j) ==
    IF j >= height THEN [ok |-> TRUE, p |-> p]
    ELSE LET off == 4 * (y * iw + x)
         IN  IF ~SliceFromOK(Len(p), off) THEN [ok |-> FALSE, p |-> p]
             ELSE ReplaceRowsFirstRow(
                    GoCopy(p, off, SubBytes(pix, 4 * j * width, 4 * (j + 1) * width)),
                    pix, iw, x, y, width, height, j + 1)

\* The loop of replacePendingPixels, lines 256-258, from row j on; a slice
\* bound out of range panics and leaves the rows already written.
RECURSIVE ReplaceRows(_, _, _, _, _, _, _, _)
ReplaceRows(p, pix, iw, x, y, width, height, j) ==
    IF j >= height THEN [ok |-> TRUE, p |-> p]
    ELSE LET off == 4 * ((j + y) * iw + x)
         IN  IF ~SliceFromOK(Len(p), off) THEN [ok |-> FALSE, p |-> p]
             ELSE ReplaceRows(
                    GoCopy(p, off, SubBytes(pix, 4 * j * width, 4 * (j + 1) * width)),
                    pix, iw, x, y, width, height, j + 1)

\* (*Image).replacePendingPixels(pix, x, y, width, height)
replacePendingPixels(W, i, pix, x, y, width, height) ==
    LET R == ReplaceRows(Bytes(W.im[i].pixels, W.user), pix, W.im[i].width,
                         x, y, width, height, 0)
        W1 == [W EXCEPT !.im[i].pixels = Own(R.p)]
    IN  IF ~R.ok THEN Panic(W1, "slice bounds out of range")
        ELSE [W1 EXCEPT !.im[i].needsToResolvePixels = TRUE]

\* (*Image).ReplacePixels(pix, x, y, width, height)
ReplacePixels(W, i, pix, x, y, width, height) ==
    IF Len(Bytes(pix, W.user)) # 4 * width * height
    THEN Panic(W, "len(pix)")
    ELSE IF W.delay
    THEN AddDelayedCommand(W, Cmd("ReplacePixels", i, 0, <<x, y, width, height>>,
                                  ClrZero, ondelayed(W, pix), NilSlice, NilSlice,
                                  0, <<>>))
    ELSE IF x = 0 /\ y = 0 /\ width = W.im[i].width /\ height = W.im[i].height
    THEN [invalidatePendingPixels(W, i) EXCEPT
              !.im[i].pixels = copied(W, pix),
              !.im[i].needsToResolvePixels = TRUE]
    ELSE LET W1 == resolvePendingFill(W, i)
             W2 == IF W1.ret # "ok" THEN W1
                   ELSE IF W1.im[i].pixels.k = "nil"
                   THEN LET R == MipmapPixels(W1, i, 0, 0, W1.im[i].width,
                                              W1.im[i].height)
                        IN  IF R.ret # "ok" THEN R
                            ELSE [R EXCEPT !.im[i].pixels = Own(R.out),
                                           !.out = <<>>]
                   ELSE W1
         IN  IF W2.ret # "ok" THEN W2
             ELSE replacePendingPixels(W2, i, Bytes(pix, W2.user),
                                       x, y, width, height)

\* (*Image).CopyPixels(img, x, y, width, height)
CopyPixels(W, i, img, x, y, width, height) ==
    IF W.delay
    THEN AddDelayedCommand(W, Cmd("CopyPixels", i, img, <<x, y, width, height>>,
                                  ClrZero, NilSlice, NilSlice, NilSlice, 0, <<>>))
    ELSE LET W1 == Pixels(W, img, x, y, width, height)
         IN  IF W1.ret # "ok" THEN W1
             ELSE ReplacePixels([W1 EXCEPT !.out = <<>>], i, Own(W1.out),
                                0, 0, width, height)

\* (*Image).drawImage(src, bounds, g, colorm, mode, filter)
drawImage(W, i, src) ==
    LET W1 == resolvePendingPixels(W, src, TRUE)
        W2 == IF W1.ret # "ok" THEN W1 ELSE resolvePendingPixels(W1, i, FALSE)
    IN  IF W2.ret # "ok" THEN W2 ELSE MipmapDrawImage(W2, i, src)

\* (*Image).DrawImage(src, bounds, a, b, c, d, tx, ty, colorm, mode, filter)
DrawImage(W, i, src) ==
    IF i = src THEN Panic(W, "src must be different from the receiver")
    ELSE IF W.delay
    THEN AddDelayedCommand(W, Cmd("drawImage", i, src, <<>>, ClrZero,
                                  NilSlice, NilSlice, NilSlice, 0, <<>>))
    ELSE drawImage(W, i, src)

\* An image-typed uniform is an image's number; any other uniform is 0.
IsImage(u) == u \in Images

\* srcs, lines 314-322: src when non-nil, then the image-typed uniforms.
Srcs(src, uniforms) ==
    (IF src # 0 THEN <<src>> ELSE <<>>) \o SelectSeq(uniforms, IsImage)

\* The loop of lines 338-340 from srcs[k] on.
RECURSIVE ResolveSrcs(_, _, _)
ResolveSrcs(W, srcs, k) ==
    IF W.ret # "ok" \/ k > Len(srcs) THEN W
    ELSE ResolveSrcs(resolvePendingPixels(W, srcs[k], TRUE), srcs, k + 1)

\* The loop of lines 348-356 from uniforms[k] on: an image-typed uniform
\* resolves the receiver again.
RECURSIVE ResolveUniforms(_, _, _, _)
ResolveUniforms(W, i, uniforms, k) ==
    IF W.ret # "ok" \/ k > Len(uniforms) THEN W
    ELSE ResolveUniforms(
           IF IsImage(uniforms[k]) THEN resolvePendingPixels(W, i, TRUE) ELSE W,
           i, uniforms, k + 1)

\* DrawTriangles comparing only src, not the uniforms, with the receiver.
DrawTrianglesSrcOnly(W, i, src, vertices, indices, shader, uniforms) ==
    LET srcs == Srcs(src, uniforms)
    IN  IF src = i
        THEN Panic(W, "src must be different from the receiver")
        ELSE IF W.delay
        THEN AddDelayedCommand(W, Cmd("DrawTriangles", i, src, <<>>, ClrZero,
                                      NilSlice, vertices, indices, shader,
                                      uniforms))
        ELSE LET W1 == ResolveSrcs(W, srcs, 1)
                 W2 == IF W1.ret # "ok" THEN W1
                       ELSE resolvePendingPixels(W1, i, FALSE)
                 s == IF shader # 0 /\ W.sh THEN 1 ELSE 0
                 W3 == ResolveUniforms(W2, i, uniforms, 1)
             IN  IF W3.ret # "ok" THEN W3
                 ELSE MipmapDrawTriangles(W3, i, src, Bytes(vertices, W3.vtx),
                                          Bytes(indices, W3.idx), s, uniforms)

\* (*Image).DrawTriangles(src, vertices, indices, colorm, mode, filter,
\* address, shader, uniforms); shader = 0 is a nil *Shader.
DrawTriangles(W, i, src, vertices, indices, shader, uniforms) ==
    LET srcs == Srcs(src, uniforms)
    IN  IF \E k \in 1..Len(srcs) : srcs[k] = i
        THEN Panic(W, "src must be different from the receiver")
        ELSE IF W.delay
        THEN AddDelayedCommand(W, Cmd("DrawTriangles", i, src, <<>>, ClrZero,
                                      NilSlice, vertices, indices, shader,
                                      uniforms))
        ELSE LET W1 == ResolveSrcs(W, srcs, 1)
                 W2 == IF W1.ret # "ok" THEN W1
                       ELSE resolvePendingPixels(W1, i, FALSE)
                 s == IF shader # 0 /\ W.sh THEN 1 ELSE 0
                 W3 == ResolveUniforms(W2, i, uniforms, 1)
             IN  IF W3.ret # "ok" THEN W3
                 ELSE MipmapDrawTriangles(W3, i, src, Bytes(vertices, W3.vtx),
                                          Bytes(indices, W3.idx), s, uniforms)

\* (*Shader).MarkDisposed(): s.shader.MarkDisposed(); s.shader = nil
ShaderMarkDisposed(W) ==
    IF ~W.sh THEN Panic(W, "nil pointer dereference")
    ELSE Log([W EXCEPT !.sh = FALSE], Call("ShaderMarkDisposed", 0, <<>>, <<>>, 0))

-----------------------------------------------------------------------------
(* Replay and the frame calls.                                             *)

\* One captured closure, called by the flush: it re-enters the method it was
\* captured from and returns nil, whatever that method returned; a panic
\* unwinds through it. ran lists the commands that executed.
Exec(W, c) ==
    LET R == CASE c.op = "initialize" -> initialize(W, c.i, c.r[1], c.r[2])
               [] c.op = "MarkDisposed" -> MarkDisposed(W, c.i)
               [] c.op = "Fill" -> Fill(W, c.i, c.c)
               [] c.op = "ReplacePixels" ->
                    ReplacePixels(W, c.i, c.obj, c.r[1], c.r[2], c.r[3], c.r[4])
               [] c.op = "CopyPixels" ->
                    CopyPixels(W, c.i, c.src, c.r[1], c.r[2], c.r[3], c.r[4])
               [] c.op = "drawImage" -> drawImage(W, c.i, c.src)
               [] OTHER ->
                    DrawTriangles(W, c.i, c.src, c.vtx, c.idx, c.shader, c.us)
    IN  IF R.ret = "panic" THEN R
        ELSE [R EXCEPT !.ret = "ok", !.out = <<>>,
                       !.ran = IF Len(R.q) > Len(W.q) THEN @ ELSE Append(@, c)]

RECURSIVE RunCommands(_, _, _)
RunCommands(W, cs, k) ==
    IF W.ret # "ok" \/ k > Len(cs) THEN W
    ELSE RunCommands(Exec(W, cs[k]), cs, k + 1)

\* flushDelayedCommands(): the first call takes the captured commands, ends
\* the delaying for good and runs them in the order they were captured.
flushDelayedCommands(W) ==
    IF ~W.delay THEN W
    ELSE RunCommands([W EXCEPT !.q = <<>>, !.delay = FALSE], W.q, 1)

\* mipmap.BeginFrame() and mipmap.EndFrame(): either may fail.
MipmapBeginFrame(W) ==
    LET W1 == Log(W, Call("BeginFrame", 0, <<>>, <<>>, 0))
    IN  IF W.ffail THEN [W1 EXCEPT !.ret = "err"] ELSE [W1 EXCEPT !.frame = TRUE]

MipmapEndFrame(W) ==
    LET W1 == Log(W, Call("EndFrame", 0, <<>>, <<>>, 0))
    IN  IF W.ffail THEN [W1 EXCEPT !.ret = "err"] ELSE [W1 EXCEPT !.frame = FALSE]

\* BeginFrame flushing although mipmap.BeginFrame failed, and returning the
\* error afterwards.
BeginFrameFlushesOnError(W) ==
    LET W1 == MipmapBeginFrame(W)
    IN  IF W1.ret = "ok" THEN flushDelayedCommands(W1)
        ELSE LET W2 == flushDelayedCommands([W1 EXCEPT !.ret = "ok"])
             IN  IF W2.ret = "panic" THEN W2 ELSE [W2 EXCEPT !.ret = "err"]

\* BeginFrame returning without the flush.
BeginFrameNoFlush(W) == MipmapBeginFrame(W)

\* BeginFrame()
BeginFrame(W) ==
    LET W1 == MipmapBeginFrame(W)
    IN  IF W1.ret # "ok" THEN W1 ELSE flushDelayedCommands(W1)

\* EndFrame starting to delay commands again until the next BeginFrame.
EndFrameDelaysAgain(W) == [MipmapEndFrame(W) EXCEPT !.delay = TRUE]

\* EndFrame()
EndFrame(W) == MipmapEndFrame(W)

-----------------------------------------------------------------------------
(* The state.                                                              *)

VARIABLES
    im,                   \* the Image structs
    res,                  \* the mipmap resources behind them
    needsToDelayCommands, \* no flush has happened yet
    delayedCommands,      \* the captured commands
    shader,               \* the Shader's program reference is non-nil
    inFrame,              \* between mipmap.BeginFrame and mipmap.EndFrame
    userBuf,              \* the caller's pixel buffer
    userVtx,              \* the caller's vertex buffer
    userIdx,              \* the caller's index buffer
    live,                 \* per image: "none", "live", "disposed" (the calls issued)
    nops,                 \* calls issued before, then since, the first flush
    crashed,              \* a panic has ended the program
    last                  \* the last call: its arguments, its result, the
                          \* resource calls it made, the commands it replayed

vars == <<im, res, needsToDelayCommands, delayedCommands, shader, inFrame,
          userBuf, userVtx, userIdx, live, nops, crashed, last>>

\* The world a call starts in.
World(fail, ffail) ==
    [im |-> im, res |-> res, delay |-> needsToDelayCommands,
     q |-> delayedCommands, user |-> userBuf, vtx |-> userVtx, idx |-> userIdx,
     sh |-> shader, frame |-> inFrame, fail |-> fail, ffail |-> ffail,
     calls |-> <<>>, ret |-> "ok", why |-> "", out |-> <<>>, ran |-> <<>>]

\* What is recorded of a call.
Desc(op, i, src, r, c, pix, sh, us) ==
    [op |-> op, i |-> i, src |-> src, r |-> r, c |-> c, pix |-> pix,
     sh |-> sh, us |-> us,
     ret |-> "ok", why |-> "", out |-> <<>>, calls |-> <<>>, ran |-> <<>>,
     cap |-> FALSE, fail |-> FALSE]

NoCall == Desc("none", 0, 0, <<>>, <<>>, <<>>, 0, <<>>)

\* The state a call leaves, and its record.
Commit(W, d) ==
    /\ im' = W.im
    /\ res' = W.res
    /\ needsToDelayCommands' = W.delay
    /\ delayedCommands' = W.q
    /\ shader' = W.sh
    /\ inFrame' = W.frame
    /\ crashed' = (W.ret = "panic")
    /\ last' = [d EXCEPT !.ret = W.ret, !.why = W.why, !.out = W.out,
                         !.calls = W.calls, !.ran = W.ran,
                         !.cap = Len(W.q) > Len(delayedCommands),
                         !.fail = W.fail \/ W.ffail]
    /\ UNCHANGED <<userBuf, userVtx, userIdx>>

\* The caller's buffers, and the values it writes to them.
Pix4 == ClrA \o ClrB \o ClrC \o ClrD
Pix4b == ClrD \o ClrC \o ClrB \o ClrA
UserBufs == {Pix4, Pix4b}
UserGeoms == {<<1>>, <<2>>}

Init ==
    /\ im = [i \in Images |-> ZeroImage]
    /\ res = [i \in Images |-> NoResource]
    /\ needsToDelayCommands = TRUE
    /\ delayedCommands = <<>>
    /\ shader = TRUE
    /\ inFrame = FALSE
    /\ userBuf = Pix4
    /\ userVtx = <<1>>
    /\ userIdx = <<1>>
    /\ live = [i \in Images |-> "none"]
    /\ nops = 0
    /\ crashed = FALSE
    /\ last = NoCall

-----------------------------------------------------------------------------
(* The calls the callers make.                                             *)

\* Rectangles <<x, y, width, height>> inside a width-by-height image, with
\* width, height >= 1.
InRects(w, h) ==
    {r \in (0..(w - 1)) \X (0..(h - 1)) \X (1..w) \X (1..h) :
        r[1] + r[3] <= w /\ r[2] + r[4] <= h}

\* The regions passed to ReplacePixels, Pixels and CopyPixels on image i:
\* every region inside it and some that are not.
ReplaceRegions(i) ==
    InRects(NewWidth(i), NewHeight(i))
        \cup (IF i = 1 THEN {<<1, 1, 2, 1>>, <<0, 2, 2, 1>>, <<0, 4, 1, 1>>}
              ELSE {<<0, 0, 2, 1>>})

PixelsRegions(i) ==
    InRects(NewWidth(i), NewHeight(i))
        \cup (IF i = 1
              THEN {<<3, 0, 0, 1>>, <<5, 0, 0, 1>>, <<-1, 0, 0, 1>>, <<-1, 0, 1, 1>>,
                    <<1, 0, 2, 1>>, <<0, 1, 1, 2>>, <<4, 0, -1, 1>>, <<2, 0, -1, 1>>}
              ELSE {<<1, 0, 1, 1>>})

CopyRegions ==
    {<<0, 0, 1, 1>>, <<1, 1, 1, 1>>, <<0, 0, 2, 2>>, <<1, 0, 2, 1>>}

\* The <<src, shader, uniforms>> passed to DrawTriangles on image i.
Other(i) == IF i = 1 THEN 2 ELSE 1

TriangleArgs(i) ==
    {<<Other(i), 0, <<>>>>, <<0, 1, <<>>>>, <<0, 0, <<0, Other(i)>>>>,
     <<i, 0, <<>>>>, <<0, 0, <<0, i>>>>, <<Other(i), 1, <<i>>>>}
        \cup (IF i = 1 THEN {<<2, 1, <<2, 0>>>>, <<2, 0, <<2, 1>>>>} ELSE {})

\* A call may be issued: the program runs, the images exist, and the model's
\* bound on the number of calls is not reached.
CanCall ==
    /\ ~crashed
    /\ \A i \in Images : live[i] # "none"
    /\ nops < (IF needsToDelayCommands THEN MaxQueue ELSE MaxOps)

Live(i) == live[i] = "live"

Counted == nops' = nops + 1

\* The call recorded in l asked a resource for its pixels.
ReadBack(l) == \E k \in 1..Len(l.calls) : l.calls[k].f = "Pixels"

\* NewImage(width, height, volatile): the images are created first, in order.
NewImageAct(i) ==
    /\ ~crashed
    /\ live[i] = "none"
    /\ \A j \in Images : j < i => live[j] # "none"
    /\ Commit(initialize(World(FALSE, FALSE), i, NewWidth(i), NewHeight(i)),
              Desc("NewImage", i, 0, <<NewWidth(i), NewHeight(i)>>, <<>>, <<>>,
                   0, <<>>))
    /\ live' = [live EXCEPT ![i] = "live"]
    /\ UNCHANGED nops

FillAct(i, c) ==
    /\ CanCall /\ Live(i)
    /\ Commit(Fill(World(FALSE, FALSE), i, c),
              Desc("Fill", i, 0, <<>>, c, <<>>, 0, <<>>))
    /\ Counted
    /\ UNCHANGED live

\* ReplacePixels(buf[:n], x, y, width, height) with the caller's buffer; fail:
\* the resource's readback fails, in a call that reads back.
ReplacePixelsAct(i, r, n, fail) ==
    /\ CanCall /\ Live(i)
    /\ Commit(ReplacePixels(World(fail, FALSE), i, UserRef(n), r[1], r[2], r[3], r[4]),
              Desc("ReplacePixels", i, 0, r, <<>>, SubSeq(userBuf, 1, n), 0, <<>>))
    /\ fail => ReadBack(last')
    /\ Counted
    /\ UNCHANGED live

PixelsAct(i, r, fail) ==
    /\ CanCall /\ Live(i)
    /\ Commit(Pixels(World(fail, FALSE), i, r[1], r[2], r[3], r[4]),
              Desc("Pixels", i, 0, r, <<>>, <<>>, 0, <<>>))
    /\ fail => ReadBack(last')
    /\ Counted
    /\ UNCHANGED live

CopyPixelsAct(i, src, r, fail) ==
    /\ CanCall /\ Live(i) /\ Live(src)
    /\ Commit(CopyPixels(World(fail, FALSE), i, src, r[1], r[2], r[3], r[4]),
              Desc("CopyPixels", i, src, r, <<>>, <<>>, 0, <<>>))
    /\ fail => ReadBack(last')
    /\ Counted
    /\ UNCHANGED live

DrawImageAct(i, src) ==
    /\ CanCall /\ Live(i) /\ Live(src)
    /\ Commit(DrawImage(World(FALSE, FALSE), i, src),
              Desc("DrawImage", i, src, <<>>, <<>>, <<>>, 0, <<>>))
    /\ Counted
    /\ UNCHANGED live

DrawTrianglesAct(i, a) ==
    /\ CanCall /\ Live(i)
    /\ \A j \in Images : (j = a[1] \/ \E k \in 1..Len(a[3]) : a[3][k] = j) => Live(j)
    /\ Commit(DrawTriangles(World(FALSE, FALSE), i, a[1], UserRef(Len(userVtx)),
                            UserRef(Len(userIdx)), a[2], a[3]),
              Desc("DrawTriangles", i, a[1], <<>>, <<>>, userVtx \o userIdx,
                   a[2], a[3]))
    /\ Counted
    /\ UNCHANGED live

MarkDisposedAct(i) ==
    /\ CanCall /\ Live(i)
    /\ Commit(MarkDisposed(World(FALSE, FALSE), i),
              Desc("MarkDisposed", i, 0, <<>>, <<>>, <<>>, 0, <<>>))
    /\ live' = [live EXCEPT ![i] = "disposed"]
    /\ Counted

ShaderMarkDisposedAct ==
    /\ CanCall
    /\ Commit(ShaderMarkDisposed(World(FALSE, FALSE)),
              Desc("ShaderMarkDisposed", 0, 0, <<>>, <<>>, <<>>, 0, <<>>))
    /\ Counted
    /\ UNCHANGED live

\* BeginFrame(); fail: a readback fails during the replay; ffail:
\* mipmap.BeginFrame fails.
BeginFrameAct(fail, ffail) ==
    /\ ~crashed /\ ~inFrame
    /\ \A i \in Images : live[i] # "none"
    /\ ~(fail /\ ffail)
    /\ Commit(BeginFrame(World(fail, ffail)),
              Desc("BeginFrame", 0, 0, <<>>, <<>>, <<>>, 0, <<>>))
    /\ fail => ReadBack(last')
    /\ nops' = IF needsToDelayCommands /\ ~needsToDelayCommands' THEN 0
               ELSE IF needsToDelayCommands THEN nops ELSE nops + 1
    /\ ~needsToDelayCommands => nops < MaxOps
    /\ UNCHANGED live

EndFrameAct(ffail) ==
    /\ ~crashed /\ inFrame
    /\ nops < MaxOps
    /\ Commit(EndFrame(World(FALSE, ffail)),
              Desc("EndFrame", 0, 0, <<>>, <<>>, <<>>, 0, <<>>))
    /\ Counted
    /\ UNCHANGED live

\* The caller overwrites its pixel buffer once ReplacePixels, which was given
\* it, has returned.
WriteUserBuf(b) ==
    /\ ~crashed
    /\ last.op = "ReplacePixels"
    /\ b # userBuf
    /\ userBuf' = b
    /\ UNCHANGED <<im, res, needsToDelayCommands, delayedCommands, shader,
                   inFrame, userVtx, userIdx, live, nops, crashed, last>>

\* The caller overwrites its vertex and index buffers once DrawTriangles,
\* which was given them, has returned.
WriteUserGeom(g) ==
    /\ ~crashed
    /\ last.op = "DrawTriangles"
    /\ g # userVtx
    /\ userVtx' = g
    /\ userIdx' = g
    /\ UNCHANGED <<im, res, needsToDelayCommands, delayedCommands, shader,
                   inFrame, userBuf, live, nops, crashed, last>>

Next ==
    \/ \E i \in Images : NewImageAct(i)
    \/ \E i \in Images, c \in FillColors : FillAct(i, c)
    \/ \E i \in Images, fail \in BOOLEAN :
          \E r \in ReplaceRegions(i) :
             \E n \in {4 * r[3] * r[4], Len(userBuf)} : ReplacePixelsAct(i, r, n, fail)
    \/ \E i \in Images, fail \in BOOLEAN :
          \E r \in PixelsRegions(i) : PixelsAct(i, r, fail)
    \/ \E i, src \in Images, fail \in BOOLEAN :
          \E r \in CopyRegions : CopyPixelsAct(i, src, r, fail)
    \/ \E i, src \in Images : DrawImageAct(i, src)
    \/ \E i \in Images : \E a \in TriangleArgs(i) : DrawTrianglesAct(i, a)
    \/ \E i \in Images : MarkDisposedAct(i)
    \/ ShaderMarkDisposedAct
    \/ \E fail, ffail \in BOOLEAN : BeginFrameAct(fail, ffail)
    \/ \E ffail \in BOOLEAN : EndFrameAct(ffail)
    \/ \E b \in UserBufs : WriteUserBuf(b)
    \/ \E g \in UserGeoms : WriteUserGeom(g)

Spec == Init /\ [][Next]_vars

\* The calls that write, read and resolve image 1, with image 2 as the other
\* image of a draw or a copy; no call fails.
NextWrites ==
    \/ \E i \in Images : NewImageAct(i)
    \/ \E c \in FillColors : FillAct(1, c)
    \/ \E r \in InRects(NewWidth(1), NewHeight(1)) :
          ReplacePixelsAct(1, r, 4 * r[3] * r[4], FALSE)
    \/ \E r \in InRects(NewWidth(1), NewHeight(1)) : PixelsAct(1, r, FALSE)
    \/ CopyPixelsAct(1, 2, <<0, 0, 1, 1>>, FALSE)
    \/ DrawImageAct(1, 2)
    \/ DrawImageAct(2, 1)
    \/ BeginFrameAct(FALSE, FALSE)

SpecWrites == Init /\ [][NextWrites]_vars

-----------------------------------------------------------------------------
(* Properties.                                                             *)

\* What a full Pixels read of image i returns in the current state.
View(i) == Pixels(World(FALSE, FALSE), i, 0, 0, im[i].width, im[i].height).out

\* A counted call is issued in this step.
CallStep == nops' = nops + 1

\* The call recorded in l was executed when issued, and returned normally.
Executed(l) == l.ret = "ok" /\ ~l.cap

\* Region r = <<x, y, width, height>> lies inside image i, which has been
\* initialized.
InsideOf(r, w, h) ==
    /\ r[1] >= 0 /\ r[2] >= 0 /\ r[3] >= 1 /\ r[4] >= 1
    /\ r[1] + r[3] <= w /\ r[2] + r[4] <= h

Inside(r, i) == InsideOf(r, im[i].width, im[i].height)

FullRegion(r, i) == r = <<0, 0, im[i].width, im[i].height>>

\* The resource calls named f that l made on image i.
CallsOn(l, f, i) ==
    LET Test(c) == c.f = f /\ c.i = i IN SelectSeq(l.calls, Test)

\* Byte b (0..3) of pixel (px, py) in a row-major buffer of row width w.
ByteAt(buf, w, px, py, b) == buf[4 * (py * w + px) + b + 1]

\* Buffer full of row width w, with region r overwritten by the bytes of buf.
Overlay(full, w, r, buf) ==
    [k \in 1..Len(full) |->
        LET px == ((k - 1) \div 4) % w
            py == ((k - 1) \div 4) \div w
            b == (k - 1) % 4
        IN  IF /\ px >= r[1] /\ px < r[1] + r[3]
               /\ py >= r[2] /\ py < r[2] + r[4]
            THEN ByteAt(buf, r[3], px - r[1], py - r[2], b)
            ELSE full[k]]

\* C1: an image never has a pending fill together with a local pixel buffer
\* or with pixels to resolve, and the panic at the top of
\* resolvePendingPixels never happens.
C1_FillExcludesPixels ==
    /\ \A i \in Images :
          ~(im[i].hasFill
            /\ (im[i].pixels.k # "nil" \/ im[i].needsToResolvePixels))
    /\ last.why # "needsToResolvePixels and hasFill"

\* A draw has resolved a source with pending pixels and a destination with
\* a pending fill.
C1_Witness ==
    /\ last.op = "DrawImage" /\ Executed(last)
    /\ Len(CallsOn(last, "ReplacePixels", last.src)) = 1
    /\ Len(CallsOn(last, "Fill", last.i)) = 1

\* C2: an executed Fill makes no call on the resource; the call that follows
\* an executed Fill(c) on an image pushes at most one Fill to that image's
\* resource, with colour c; and when that call is a successful Pixels on the
\* image it returns c for every pixel and makes no call on the resource.
C2_FillsCoalesce ==
    [][/\ (last'.op = "Fill" /\ ~last'.cap) => last'.calls = <<>>
       /\ (CallStep /\ last.op = "Fill" /\ ~last.cap) =>
             LET pushes == CallsOn(last', "Fill", last.i)
             IN  /\ Len(pushes) <= 1
                 /\ \A k \in 1..Len(pushes) : pushes[k].a = last.c
       /\ (CallStep /\ last.op = "Fill" /\ ~last.cap
           /\ last'.op = "Pixels" /\ last'.i = last.i /\ last'.ret = "ok") =>
             /\ last'.out = FillBytes(last'.r[3] * last'.r[4], last.c)
             /\ last'.calls = <<>>
             /\ im'[last.i].hasFill /\ im'[last.i].fillColor = last.c
      ]_vars

\* Pixels has returned the second colour for the whole of image 1, whose
\* resource has never been filled.
C2_Witness ==
    /\ last.op = "Pixels" /\ last.i = 1 /\ last.r = <<0, 0, 2, 2>>
    /\ last.ret = "ok" /\ last.out = FillBytes(4, ClrB)
    /\ nops = 2 /\ im[1].hasFill
    /\ res[1].pix = ZeroBytes(16)

\* C3: a full-region ReplacePixels(buf) followed by a full-region Pixels
\* returns the bytes buf held at the call, and neither call reaches the
\* resource.
C3_ReplaceThenRead ==
    [][(/\ CallStep
        /\ last.op = "ReplacePixels" /\ Executed(last)
        /\ FullRegion(last.r, last.i)
        /\ last'.op = "Pixels" /\ last'.i = last.i
        /\ FullRegion(last'.r, last.i)) =>
          /\ last'.ret = "ok"
          /\ last'.out = last.pix
          /\ last.calls = <<>>
          /\ last'.calls = <<>>
      ]_vars

\* The full read of image 1 has returned what the caller's buffer held at the
\* call, after the caller has overwritten the buffer.
C3_Witness ==
    /\ last.op = "Pixels" /\ last.i = 1 /\ last.r = <<0, 0, 2, 2>>
    /\ last.ret = "ok" /\ last.out = Pix4 /\ userBuf = Pix4b
    /\ last.calls = <<>>
    /\ im[1].needsToResolvePixels

\* C4: a partial ReplacePixels inside the image that returns normally leaves
\* a full read equal to the full read before it with the region overwritten
\* by the buffer, leaves the pixels to be resolved, and pushes no
\* ReplacePixels to the resource.
C4_PartialReplace ==
    [][\A i \in Images :
         (/\ CallStep
          /\ last'.op = "ReplacePixels" /\ last'.i = i /\ Executed(last')
          /\ Inside(last'.r, i)
          /\ ~FullRegion(last'.r, i)) =>
            /\ View(i)' = Overlay(View(i), im[i].width, last'.r, last'.pix)
            /\ im'[i].needsToResolvePixels
            /\ im'[i].pixels.k = "own"
            /\ CallsOn(last', "ReplacePixels", i) = <<>>
      ]_vars

\* The first row of image 1, filled with the second colour before, has been
\* replaced.
C4_Witness ==
    /\ last.op = "ReplacePixels" /\ last.i = 1 /\ last.r = <<0, 0, 2, 1>>
    /\ Executed(last)
    /\ im[1].needsToResolvePixels
    /\ View(1) = ClrA \o ClrB \o ClrB \o ClrB

\* The regions inside image i that are not the whole image.
PartialRegions(i) ==
    {r \in InRects(NewWidth(i), NewHeight(i)) :
        r # <<0, 0, NewWidth(i), NewHeight(i)>>}

Disjoint(r, t) ==
    \/ r[1] + r[3] <= t[1] \/ t[1] + t[3] <= r[1]
    \/ r[2] + r[4] <= t[2] \/ t[2] + t[4] <= r[2]

\* The full read after ReplacePixels(a, ra) then ReplacePixels(b, rb) on
\* image i, from the current state.
ViewAfterTwo(i, a, ra, b, rb) ==
    LET W1 == ReplacePixels(World(FALSE, FALSE), i, Own(a),
                            ra[1], ra[2], ra[3], ra[4])
        W2 == ReplacePixels(W1, i, Own(b), rb[1], rb[2], rb[3], rb[4])
    IN  Pixels(W2, i, 0, 0, W2.im[i].width, W2.im[i].height).out

\* C5: from any state, two partial ReplacePixels calls on disjoint regions
\* inside an image lead to the same full read in either order, which is the
\* full read before them with each region overwritten by its own buffer.
C5_DisjointCommute ==
    (~needsToDelayCommands /\ ~crashed) =>
        \A i \in Images :
            Live(i) =>
                \A ra, rb \in PartialRegions(i) :
                    Disjoint(ra, rb) =>
                        LET a == SubSeq(Pix4, 1, 4 * ra[3] * ra[4])
                            b == SubSeq(Pix4b, 1, 4 * rb[3] * rb[4])
                            ab == ViewAfterTwo(i, a, ra, b, rb)
                        IN  /\ ab = ViewAfterTwo(i, b, rb, a, ra)
                            /\ ab = Overlay(Overlay(View(i), im[i].width, ra, a),
                                            im[i].width, rb, b)

\* Two partial ReplacePixels calls have written two opposite corners of
\* image 1.
C5_Witness ==
    /\ last.op = "ReplacePixels" /\ last.i = 1 /\ last.r = <<1, 1, 1, 1>>
    /\ Executed(last)
    /\ im[1].pixels.b = ClrA \o ClrZero \o ClrZero \o ClrA

\* Region r is outside image i: x<0 or y<0 or x+w>width or y+h>height.
Outside(r, i) ==
    \/ r[1] < 0 \/ r[2] < 0
    \/ r[1] + r[3] > im[i].width \/ r[2] + r[4] > im[i].height

\* C6: Pixels, once the delayed commands are flushed, returns a range error
\* and no pixel data for every region with x<0 or y<0 or x+w>width or
\* y+h>height, zero and negative sizes included.
C6_RangeErrorOutside ==
    (/\ last.op = "Pixels"
     /\ last.why # "delayed commands are not flushed"
     /\ Outside(last.r, last.i)) =>
        (last.ret = "range" /\ last.out = <<>>)

\* The call recorded in l names its receiver as src or among its uniforms.
Aliased(l) == l.src = l.i \/ \E k \in 1..Len(l.us) : l.us[k] = l.i

\* C7: DrawImage and DrawTriangles with the receiver as src or among the
\* image-typed uniforms panic, before and after the first BeginFrame, with
\* no image resolved, no call on a resource and no command captured.
C7_AliasedDrawPanics ==
    [][(/\ CallStep
        /\ last'.op \in {"DrawImage", "DrawTriangles"}
        /\ Aliased(last')) =>
          /\ crashed'
          /\ last'.ret = "panic"
          /\ last'.why = "src must be different from the receiver"
          /\ last'.calls = <<>>
          /\ UNCHANGED <<im, res, delayedCommands, needsToDelayCommands>>
      ]_vars

\* DrawTriangles on image 1, which has a pending fill, with image 1 as its
\* second uniform after image 2, has panicked after the first BeginFrame.
C7_Witness ==
    /\ crashed /\ ~needsToDelayCommands
    /\ last.op = "DrawTriangles" /\ last.i = 1 /\ last.us = <<2, 1>>
    /\ im[1].hasFill

\* The calls that are captured before the first BeginFrame.
Mutating ==
    {"NewImage", "Fill", "ReplacePixels", "CopyPixels", "DrawImage",
     "DrawTriangles", "MarkDisposed"}

\* C8: a mutating call issued before the first BeginFrame that returns is
\* captured and changes no image and no resource; the first BeginFrame to
\* succeed runs every captured command once, in the order of capture,
\* captures none again, and leaves the queue empty.
C8_CapturedThenReplayed ==
    [][/\ (/\ needsToDelayCommands
           /\ (CallStep \/ live' # live)
           /\ last'.op \in Mutating
           /\ ~crashed') =>
             /\ last'.cap
             /\ Len(delayedCommands') = Len(delayedCommands) + 1
             /\ SubSeq(delayedCommands', 1, Len(delayedCommands)) = delayedCommands
             /\ delayedCommands'[Len(delayedCommands')].i = last'.i
             /\ last'.calls = <<>>
             /\ UNCHANGED <<im, res>>
       /\ (/\ needsToDelayCommands
           /\ last'.op = "BeginFrame" /\ last'.ret = "ok") =>
             /\ last'.ran = delayedCommands
             /\ delayedCommands' = <<>>
             /\ ~needsToDelayCommands'
             /\ \A i \in Images : im'[i].img /\ res'[i].alloc
             /\ Len(last'.calls) >= 3
             /\ last'.calls[2].f = "New" /\ last'.calls[2].i = 1
             /\ last'.calls[3].f = "New" /\ last'.calls[3].i = 2
      ]_vars

\* The first BeginFrame has replayed the creation of the two images and a
\* Fill of image 1, in that order, and image 1 has the fill pending.
C8_Witness ==
    /\ last.op = "BeginFrame" /\ last.ret = "ok"
    /\ Len(last.ran) = 3
    /\ last.ran[1].op = "initialize" /\ last.ran[2].op = "initialize"
    /\ last.ran[3].op = "Fill" /\ last.ran[3].i = 1
    /\ im[1].hasFill /\ im[1].width = 2
    /\ delayedCommands = <<>>

\* C9: once the first flush has happened the queue is empty and stays so, no
\* call is captured, and BeginFrame replays nothing.
C9_NoDelayAfterFlush ==
    [][~needsToDelayCommands =>
          /\ delayedCommands = <<>>
          /\ ~needsToDelayCommands'
          /\ delayedCommands' = <<>>
          /\ ~last'.cap
          /\ (last'.op = "BeginFrame" => last'.ran = <<>>)
      ]_vars

\* A Fill issued between an EndFrame and the next BeginFrame has executed.
C9_Witness ==
    /\ ~needsToDelayCommands /\ ~inFrame
    /\ last.op = "Fill" /\ Executed(last)
    /\ im[last.i].hasFill /\ im[last.i].fillColor = last.c
    /\ delayedCommands = <<>>

\* C10: when BeginFrame replays a ReplacePixels captured by the call before
\* it, and no readback fails, the region of the image holds the bytes the
\* caller's buffer held at the call; and a write to the caller's buffer
\* changes no image's pixel buffer.
C10_BufferSnapshot ==
    [][/\ \A i \in Images :
            (/\ needsToDelayCommands
             /\ last.op = "ReplacePixels" /\ last.cap /\ last.i = i
             /\ last'.op = "BeginFrame" /\ last'.ret = "ok" /\ ~last'.fail
             /\ InsideOf(last.r, im'[i].width, im'[i].height)) =>
               /\ im'[i].needsToResolvePixels
               /\ View(i)' = Overlay(View(i)', im'[i].width, last.r, last.pix)
       /\ userBuf' # userBuf =>
            \A i \in Images :
                Bytes(im'[i].pixels, userBuf') = Bytes(im[i].pixels, userBuf)
      ]_vars

\* The flush has replayed a full ReplacePixels of image 1 with the bytes the
\* caller's buffer held at the call, after the caller has overwritten it.
C10_Witness ==
    /\ last.op = "BeginFrame" /\ last.ret = "ok"
    /\ Len(last.ran) = 3 /\ last.ran[3].op = "ReplacePixels"
    /\ last.ran[3].i = 1
    /\ userBuf = Pix4b
    /\ im[1].pixels = Own(Pix4)
    /\ im[1].needsToResolvePixels

\* C11: the vertices and indices that reach the resource's DrawTriangles are
\* those the caller's buffers held when DrawTriangles was called, both when
\* the call executes at once and when the first BeginFrame replays it after
\* the caller has overwritten the buffers.
C11_GeometrySnapshot ==
    [][/\ (CallStep /\ last'.op = "DrawTriangles" /\ Executed(last')) =>
             \A k \in 1..Len(last'.calls) :
                 last'.calls[k].f = "DrawTriangles" =>
                     last'.calls[k].b = last'.pix
       /\ (/\ needsToDelayCommands
           /\ last.op = "DrawTriangles" /\ last.cap
           /\ last'.op = "BeginFrame" /\ last'.ret = "ok") =>
             \A k \in 1..Len(last'.calls) :
                 last'.calls[k].f = "DrawTriangles" =>
                     last'.calls[k].b = last.pix
      ]_vars

\* C12: Pixels called before the first flush panics, returns no data, makes
\* no call on a resource, and leaves every image, every resource and the
\* queue as they were.
C12_PixelsBeforeFlushPanics ==
    [][(needsToDelayCommands /\ CallStep /\ last'.op = "Pixels") =>
          /\ crashed'
          /\ last'.ret = "panic"
          /\ last'.why = "delayed commands are not flushed"
          /\ last'.out = <<>>
          /\ last'.calls = <<>>
          /\ UNCHANGED <<im, res, delayedCommands, needsToDelayCommands>>
      ]_vars

\* Pixels on image 1 has panicked with the creation of the two images
\* captured and not yet replayed.
C12_Witness ==
    /\ crashed /\ needsToDelayCommands
    /\ last.op = "Pixels" /\ last.i = 1 /\ last.r = <<0, 0, 2, 2>>
    /\ Len(delayedCommands) = 2
    /\ ~im[1].img

\* A DrawImage on d from s, two different images, is executed in this step.
DrawStep(d, s) ==
    /\ CallStep /\ last'.op = "DrawImage" /\ Executed(last')
    /\ last'.i = d /\ last'.src = s /\ d # s

\* C13: an executed DrawImage from a different source leaves the full read
\* of the source as it was, and the full read of the destination is the
\* content of the destination's resource after the draw.
C13_DrawKeepsSource ==
    [][\A d, s \in Images :
          DrawStep(d, s) =>
              /\ View(s)' = View(s)
              /\ View(d)' = res'[d].pix
      ]_vars

\* A CopyPixels on d from s, two different images, is executed in this step.
CopyStep(d, s) ==
    /\ CallStep /\ last'.op = "CopyPixels" /\ Executed(last')
    /\ last'.i = d /\ last'.src = s /\ d # s

\* What Pixels on image s returns for region r in the current state.
Region(s, r) == Pixels(World(FALSE, FALSE), s, r[1], r[2], r[3], r[4]).out

\* C14: an executed CopyPixels from a different source leaves the
\* destination with a pixel buffer to resolve that is exactly the bytes of
\* the source's region, with no pending fill, and makes no call on the
\* destination's resource.
C14_CopyIsFullReplace ==
    [][\A d, s \in Images :
          CopyStep(d, s) =>
              /\ im'[d].pixels = Own(Region(s, last'.r))
              /\ im'[d].needsToResolvePixels
              /\ ~im'[d].hasFill
              /\ \A k \in 1..Len(last'.calls) : last'.calls[k].i # d
      ]_vars

\* C15: a Pixels, ReplacePixels or CopyPixels call executed at once in which
\* the resource's readback fails returns the error and leaves every image's
\* pending fill, fill colour, pixel buffer and needs-resolve flag as they
\* were.
C15_FailureKeepsPending ==
    [][(/\ CallStep /\ ~needsToDelayCommands
        /\ last'.op \in {"Pixels", "ReplacePixels", "CopyPixels"}
        /\ last'.fail) =>
          /\ last'.ret = "err"
          /\ im' = im
      ]_vars

\* C16: the first BeginFrame reports an error when a readback fails during
\* the replay, and when it replays a CopyPixels, captured by the call before
\* it, whose region is outside the source.
C16_ReplayErrorsReported ==
    [][/\ (/\ needsToDelayCommands
           /\ last'.op = "BeginFrame" /\ ~crashed'
           /\ last'.fail /\ ReadBack(last')) =>
             last'.ret # "ok"
       /\ \A s \in Images :
             (/\ needsToDelayCommands
              /\ last.op = "CopyPixels" /\ last.cap /\ last.src = s
              /\ last'.op = "BeginFrame" /\ ~crashed' /\ ~last'.fail
              /\ ~InsideOf(last.r, im'[s].width, im'[s].height)) =>
                last'.ret # "ok"
      ]_vars

\* C17: Shader.MarkDisposed leaves the shader's program reference nil, and a
\* DrawTriangles given the disposed Shader panics with no DrawTriangles
\* reaching a resource.
C17_DisposedShaderFatal ==
    [][/\ (CallStep /\ last'.op = "ShaderMarkDisposed" /\ last'.ret = "ok") =>
             ~shader'
       /\ (/\ CallStep /\ ~shader
           /\ last'.op = "DrawTriangles" /\ last'.sh # 0) =>
             /\ crashed'
             /\ \A k \in 1..Len(last'.calls) :
                    last'.calls[k].f # "DrawTriangles"
      ]_vars

\* A DrawImage or DrawTriangles on image d is executed in this step.
DrawOn(d) ==
    /\ CallStep /\ last'.op \in {"DrawImage", "DrawTriangles"}
    /\ Executed(last') /\ last'.i = d

\* Image s is the src or an image-typed uniform of the call recorded in l.
SourceOf(l, s) == \E k \in 1..Len(Srcs(l.src, l.us)) : Srcs(l.src, l.us)[k] = s

\* C18: an executed draw leaves a destination that held a pixel buffer with
\* no pixel buffer, no pending fill and nothing to resolve, and leaves every
\* source with the pixel buffer it had and nothing to resolve.
C18_DrawDiscardsDestBuffer ==
    [][\A d \in Images :
          DrawOn(d) =>
              /\ im[d].pixels.k # "nil" =>
                     /\ im'[d].pixels.k = "nil"
                     /\ ~im'[d].hasFill
                     /\ ~im'[d].needsToResolvePixels
              /\ \A s \in Images :
                     SourceOf(last', s) =>
                         /\ im'[s].pixels = im[s].pixels
                         /\ ~im'[s].needsToResolvePixels
      ]_vars

\* A ReplacePixels on image i that is not a full-region one is executed at
\* once in this step, its buffer having the length its region asks for.
PartialStep(i) ==
    /\ CallStep /\ ~needsToDelayCommands
    /\ last'.op = "ReplacePixels" /\ last'.i = i
    /\ last'.why # "len(pix)"
    /\ ~FullRegion(last'.r, i)

\* C19: a partial ReplacePixels on an image with a pending fill
\* makes no call on the resource, and a partial ReplacePixels reads back
\* only when the image has neither a pending fill nor a pixel buffer.
C19_FillMaterializedLocally ==
    [][\A i \in Images :
          PartialStep(i) =>
              /\ im[i].hasFill => last'.calls = <<>>
              /\ ReadBack(last') =>
                     (~im[i].hasFill /\ im[i].pixels.k = "nil")
      ]_vars

\* C20: a Pixels call on an image with a pending fill, after the first
\* flush, makes no call on a resource, leaves every image and every resource
\* as they were, the fill still pending, and when it returns normally it
\* returns the fill colour for every pixel of the region.
C20_PixelsFromFill ==
    [][\A i \in Images :
          (/\ CallStep /\ ~needsToDelayCommands
           /\ last'.op = "Pixels" /\ last'.i = i
           /\ im[i].hasFill) =>
              /\ last'.calls = <<>>
              /\ im' = im /\ res' = res
              /\ im'[i].hasFill
              /\ last'.ret = "ok" =>
                     last'.out = FillBytes(last'.r[3] * last'.r[4],
                                           im[i].fillColor)
      ]_vars

\* Pixels has returned the first colour for one pixel of image 1, whose
\* fill is still pending.
C20_Witness ==
    /\ last.op = "Pixels" /\ last.i = 1 /\ last.r = <<1, 1, 1, 1>>
    /\ last.ret = "ok" /\ last.out = ClrA
    /\ last.calls = <<>>
    /\ im[1].hasFill /\ im[1].fillColor = ClrA /\ im[1].pixels.k = "nil"

\* The bytes of region r of a row-major buffer of row width w.
SubRegion(full, w, r) ==
    [k \in 1..(4 * r[3] * r[4]) |->
        ByteAt(full, w, r[1] + (((k - 1) \div 4) % r[3]),
               r[2] + (((k - 1) \div 4) \div r[3]), (k - 1) % 4)]

\* C21: a Pixels call after the first flush makes no call on a resource but
\* at most one readback, of the entire image, and none when the image holds
\* a pixel buffer; and a Pixels call that follows a successful Pixels call on
\* the same image with no fill pending makes no call on a resource, changes
\* no image, and returns its region of the cached buffer.
C21_ReadBackOnce ==
    [][\A i \in Images :
          /\ (/\ CallStep /\ ~needsToDelayCommands
              /\ last'.op = "Pixels" /\ last'.i = i) =>
                /\ Len(last'.calls) <= 1
                /\ \A k \in 1..Len(last'.calls) :
                       last'.calls[k] =
                           Call("Pixels", i,
                                <<0, 0, im[i].width, im[i].height>>, <<>>, 0)
                /\ im[i].pixels.k # "nil" => last'.calls = <<>>
          /\ (/\ CallStep
              /\ last.op = "Pixels" /\ last.i = i /\ last.ret = "ok"
              /\ ~im[i].hasFill
              /\ last'.op = "Pixels" /\ last'.i = i) =>
                /\ last'.calls = <<>>
                /\ im' = im
                /\ Inside(last'.r, i) =>
                       /\ last'.ret = "ok"
                       /\ last'.out =
                              SubRegion(im[i].pixels.b, im[i].width, last'.r)
      ]_vars

\* The second of two Pixels calls on image 1 has been served from the buffer
\* the first one read back from the resource.
C21_Witness ==
    /\ last.op = "Pixels" /\ last.i = 1 /\ last.r = <<1, 1, 1, 1>>
    /\ last.ret = "ok" /\ last.out = ClrZero
    /\ last.calls = <<>>
    /\ nops = 2
    /\ im[1].pixels = Own(ZeroBytes(16))
    /\ ~im[1].needsToResolvePixels /\ ~im[1].hasFill

\* C22: an executed Fill leaves only its fill pending, an executed
\* full-region ReplacePixels leaves only its buffer pending, and an executed
\* MarkDisposed leaves nothing pending; none of them changes the pixels of a
\* resource, and the only call on a resource is MarkDisposed's disposal.
C22_InvalidationDiscards ==
    [][\A i \in Images :
          (CallStep /\ Executed(last') /\ last'.i = i) =>
              /\ last'.op = "Fill" =>
                     /\ im'[i].hasFill /\ im'[i].fillColor = last'.c
                     /\ im'[i].pixels.k = "nil"
                     /\ ~im'[i].needsToResolvePixels
                     /\ last'.calls = <<>> /\ res' = res
              /\ (last'.op = "ReplacePixels" /\ FullRegion(last'.r, i)) =>
                     /\ ~im'[i].hasFill
                     /\ im'[i].pixels = Own(last'.pix)
                     /\ im'[i].needsToResolvePixels
                     /\ last'.calls = <<>> /\ res' = res
              /\ last'.op = "MarkDisposed" =>
                     /\ ~im'[i].hasFill
                     /\ im'[i].pixels.k = "nil"
                     /\ ~im'[i].needsToResolvePixels
                     /\ last'.calls = <<Call("MarkDisposed", i, <<>>, <<>>, 0)>>
                     /\ \A j \in Images : res'[j].pix = res[j].pix
      ]_vars

\* Image 1 has been disposed of inside a frame with a fill of the first
\* colour set earlier, and its resource has never been written.
C22_Witness ==
    /\ last.op = "MarkDisposed" /\ last.i = 1 /\ Executed(last)
    /\ ~needsToDelayCommands /\ inFrame
    /\ im[1].fillColor = ClrA /\ ~im[1].hasFill
    /\ res[1].disposed /\ res[1].pix = ZeroBytes(16)

\* C23: after the first flush, a live image's pixel buffer that is not to be
\* resolved equals the content of the image's resource.
C23_ReadCoherence ==
    (~needsToDelayCommands /\ ~crashed) =>
        \A i \in Images :
            (/\ Live(i)
             /\ im[i].pixels.k # "nil"
             /\ ~im[i].needsToResolvePixels) =>
                Bytes(im[i].pixels, userBuf) = res[i].pix

\* C24: a BeginFrame in which mipmap.BeginFrame fails returns the error,
\* replays no command, makes no other call on a resource, and leaves the
\* queue, the delaying, every image and every resource as they were.
C24_FailedBeginFrameKeepsQueue ==
    [][(last'.op = "BeginFrame" /\ last'.fail /\ ~ReadBack(last')) =>
          /\ last'.ret = "err"
          /\ last'.ran = <<>>
          /\ last'.calls = <<Call("BeginFrame", 0, <<>>, <<>>, 0)>>
          /\ UNCHANGED <<delayedCommands, needsToDelayCommands, im, res>>
      ]_vars

\* The first BeginFrame has failed with the creation of the two images and a
\* Fill captured; the three commands are still queued.
C24_Witness ==
    /\ last.op = "BeginFrame" /\ last.ret = "err"
    /\ needsToDelayCommands
    /\ Len(delayedCommands) = 3
    /\ delayedCommands[3].op = "Fill"
    /\ ~im[1].img /\ ~im[2].img

====
